---------------------------- MODULE Spec2Model ----------------------------
(***************************************************************************)
(* Model of jsScraper.py: the response handler installed by                *)
(* collect_js_urls, process_inline_scripts, the recursive crawl_links and  *)
(* the session body of download_js_files, over the shared hash_set,        *)
(* skipped_counters and errors.                                            *)
(*                                                                         *)
(* Text is modelled character by character: a str is a sequence of         *)
(* one-character strings, a bytes value a sequence of byte tokens (an      *)
(* ASCII byte is written as its character, any other byte as "xHH").       *)
(* The modelled texts hold no newline and no ';' path parameters.          *)
(***************************************************************************)
EXTENDS Naturals, Sequences, FiniteSets, Bags, TLC

\* ------------------------------------------------------------------------
\* str helpers (Python built-ins used by the source)
\* ------------------------------------------------------------------------

UpperLetters == <<"A", "B", "C", "D", "E", "F", "G", "H", "I", "J", "K", "L", "M",
    "N", "O", "P", "Q", "R", "S", "T", "U", "V", "W", "X", "Y", "Z">>

LowerLetters == <<"a", "b", "c", "d", "e", "f", "g", "h", "i", "j", "k", "l", "m",
    "n", "o", "p", "q", "r", "s", "t", "u", "v", "w", "x", "y", "z">>

Digits == {"0", "1", "2", "3", "4", "5", "6", "7", "8", "9"}

IsUpper(c) == \E i \in DOMAIN UpperLetters : UpperLetters[i] = c

IsAlpha(c) == \E i \in DOMAIN UpperLetters : UpperLetters[i] = c \/ LowerLetters[i] = c

\* str.lower(), one character
LowerChar(c) ==
    IF IsUpper(c)
    THEN LowerLetters[CHOOSE i \in DOMAIN UpperLetters : UpperLetters[i] = c]
    ELSE c

\* str.lower()
Lower(s) == [i \in 1..Len(s) |-> LowerChar(s[i])]

\* s[i:] with a 1-based first index
From(s, i) == SubSeq(s, i, Len(s))

\* s.startswith(p)
StartsWith(s, p) == Len(s) >= Len(p) /\ SubSeq(s, 1, Len(p)) = p

\* s.endswith(p)
EndsWith(s, p) == Len(s) >= Len(p) /\ SubSeq(s, Len(s) - Len(p) + 1, Len(s)) = p

\* s.find(c) over a set of characters: the first index holding one of them, 0 if none
Find(s, chars) ==
    IF \E i \in 1..Len(s) : s[i] \in chars
    THEN CHOOSE i \in 1..Len(s) : s[i] \in chars /\ \A j \in 1..(i - 1) : s[j] \notin chars
    ELSE 0

\* s.lstrip(c)
LStrip(s, c) ==
    IF \A i \in 1..Len(s) : s[i] = c
    THEN << >>
    ELSE From(s, CHOOSE i \in 1..Len(s) : s[i] # c /\ \A j \in 1..(i - 1) : s[j] = c)

\* s.rstrip(c)
RStrip(s, c) ==
    IF \A i \in 1..Len(s) : s[i] = c
    THEN << >>
    ELSE SubSeq(s, 1, CHOOSE i \in 1..Len(s) : s[i] # c /\ \A j \in (i + 1)..Len(s) : s[j] = c)

\* s.strip(c)
Strip(s, c) == LStrip(RStrip(s, c), c)

\* ------------------------------------------------------------------------
\* re.search over the pattern lists.  A pattern is a sequence of literal
\* characters and ANY (an unescaped '.'), with eol set when it ends in '$'.
\* In the source the lists are raw strings holding a doubled backslash, so a
\* written "\\." is the regular expression: a literal backslash, then any
\* character.
\* ------------------------------------------------------------------------

ANY == "<any>"

\* UNINTERESTING_JS_STRICT (src lines 31-40), each pattern expanded into its alternatives
UNINTERESTING_JS_STRICT == <<
    [re |-> <<"s", "e", "g", "m", "e", "n", "t", "\\", ANY, "c", "o", "m">>, eol |-> FALSE],  \* segment\\.com
    [re |-> <<"g", "o", "o", "g", "l", "e", "-", "a", "n", "a", "l", "y", "t", "i", "c", "s", "\\", ANY, "c", "o", "m">>, eol |-> FALSE],  \* google-analytics\\.com
    [re |-> <<"g", "o", "o", "g", "l", "e", "t", "a", "g", "m", "a", "n", "a", "g", "e", "r", "\\", ANY, "c", "o", "m">>, eol |-> FALSE],  \* googletagmanager\\.com
    [re |-> <<"f", "a", "c", "e", "b", "o", "o", "k", "\\", ANY, "n", "e", "t">>, eol |-> FALSE],  \* facebook\\.net
    [re |-> <<"t", "w", "i", "t", "t", "e", "r", "\\", ANY, "c", "o", "m">>, eol |-> FALSE],  \* twitter\\.com
    [re |-> <<"l", "i", "n", "k", "e", "d", "i", "n", "\\", ANY, "c", "o", "m">>, eol |-> FALSE],  \* linkedin\\.com
    [re |-> <<"h", "o", "t", "j", "a", "r", "\\", ANY, "c", "o", "m">>, eol |-> FALSE],  \* hotjar\\.com
    [re |-> <<"j", "q", "u", "e", "r", "y", "\\", ANY, "m", "i", "n", "\\", ANY, "j", "s">>, eol |-> FALSE],  \* jquery(?:\\.min)?\\.js
    [re |-> <<"j", "q", "u", "e", "r", "y", "\\", ANY, "j", "s">>, eol |-> FALSE],  \* jquery(?:\\.min)?\\.js
    [re |-> <<"b", "o", "o", "t", "s", "t", "r", "a", "p", "\\", ANY, "m", "i", "n", "\\", ANY, "j", "s">>, eol |-> FALSE],  \* bootstrap(?:\\.min)?\\.js
    [re |-> <<"b", "o", "o", "t", "s", "t", "r", "a", "p", "\\", ANY, "j", "s">>, eol |-> FALSE],  \* bootstrap(?:\\.min)?\\.js
    [re |-> <<"c", "d", "n", "\\", ANY, "j", "s", "d", "e", "l", "i", "v", "r", "\\", ANY, "n", "e", "t">>, eol |-> FALSE],  \* cdn\\.jsdelivr\\.net
    [re |-> <<"c", "d", "n", "\\", ANY, "c", "l", "o", "u", "d", "f", "l", "a", "r", "e", "\\", ANY, "c", "o", "m">>, eol |-> FALSE],  \* cdn\\.cloudflare\\.com
    [re |-> <<"p", "o", "l", "y", "f", "i", "l", "l", "\\", ANY, "i", "o">>, eol |-> FALSE],  \* polyfill\\.io
    [re |-> <<"a", "d", "s", "\\", ANY>>, eol |-> FALSE],  \* ads?\\.
    [re |-> <<"a", "d", "\\", ANY>>, eol |-> FALSE],  \* ads?\\.
    [re |-> <<"t", "r", "a", "c", "k", "i", "n", "g", "\\", ANY, "j", "s">>, eol |-> FALSE],  \* track(?:ing)?\\.js
    [re |-> <<"t", "r", "a", "c", "k", "\\", ANY, "j", "s">>, eol |-> FALSE],  \* track(?:ing)?\\.js
    [re |-> <<"a", "n", "a", "l", "y", "t", "i", "c", "s", "\\", ANY, "j", "s">>, eol |-> FALSE],  \* analytics\\.js
    [re |-> <<"g", "t", "m", "\\", ANY, "j", "s">>, eol |-> FALSE],  \* gtm\\.js
    [re |-> <<"o", "p", "t", "i", "m", "i", "z", "e", "l", "y", "\\", ANY, "c", "o", "m">>, eol |-> FALSE],  \* optimizely\\.com
    [re |-> <<"\\", ANY, "m", "i", "n", "\\", ANY, "j", "s">>, eol |-> TRUE],  \* \\.min\\.js$
    [re |-> <<"w", "e", "b", "p", "a", "c", "k">>, eol |-> FALSE],  \* webpack
    [re |-> <<"r", "e", "a", "c", "t">>, eol |-> FALSE],  \* react
    [re |-> <<"v", "u", "e">>, eol |-> FALSE],  \* vue
    [re |-> <<"a", "n", "g", "u", "l", "a", "r">>, eol |-> FALSE],  \* angular
    [re |-> <<"/", "v", "e", "n", "d", "o", "r", "/">>, eol |-> FALSE],  \* \/vendor\/
    [re |-> <<"/", "p", "l", "u", "g", "i", "n", "s", "/">>, eol |-> FALSE],  \* \/plugins\/
    [re |-> <<"/", "d", "o", "c", "s", "/">>, eol |-> FALSE],  \* \/docs\/
    [re |-> <<"/", "t", "h", "e", "m", "e", "s", "/">>, eol |-> FALSE],  \* \/themes\/
    [re |-> <<"/", "d", "i", "s", "t", "/">>, eol |-> FALSE],  \* \/dist\/
    [re |-> <<"\\", ANY, "w", "o", "f", "f">>, eol |-> TRUE],  \* \\.(?:woff|woff2|ttf|ttc|otf|eot|svg|png|jpg|js)$
    [re |-> <<"\\", ANY, "w", "o", "f", "f", "2">>, eol |-> TRUE],  \* \\.(?:woff|woff2|ttf|ttc|otf|eot|svg|png|jpg|js)$
    [re |-> <<"\\", ANY, "t", "t", "f">>, eol |-> TRUE],  \* \\.(?:woff|woff2|ttf|ttc|otf|eot|svg|png|jpg|js)$
    [re |-> <<"\\", ANY, "t", "t", "c">>, eol |-> TRUE],  \* \\.(?:woff|woff2|ttf|ttc|otf|eot|svg|png|jpg|js)$
    [re |-> <<"\\", ANY, "o", "t", "f">>, eol |-> TRUE],  \* \\.(?:woff|woff2|ttf|ttc|otf|eot|svg|png|jpg|js)$
    [re |-> <<"\\", ANY, "e", "o", "t">>, eol |-> TRUE],  \* \\.(?:woff|woff2|ttf|ttc|otf|eot|svg|png|jpg|js)$
    [re |-> <<"\\", ANY, "s", "v", "g">>, eol |-> TRUE],  \* \\.(?:woff|woff2|ttf|ttc|otf|eot|svg|png|jpg|js)$
    [re |-> <<"\\", ANY, "p", "n", "g">>, eol |-> TRUE],  \* \\.(?:woff|woff2|ttf|ttc|otf|eot|svg|png|jpg|js)$
    [re |-> <<"\\", ANY, "j", "p", "g">>, eol |-> TRUE],  \* \\.(?:woff|woff2|ttf|ttc|otf|eot|svg|png|jpg|js)$
    [re |-> <<"\\", ANY, "j", "s">>, eol |-> TRUE]  \* \\.(?:woff|woff2|ttf|ttc|otf|eot|svg|png|jpg|js)$
>>

\* UNINTERESTING_JS_RELAXED (src lines 42-51), each pattern expanded into its alternatives
UNINTERESTING_JS_RELAXED == <<
    [re |-> <<"s", "e", "g", "m", "e", "n", "t", "\\", ANY, "c", "o", "m">>, eol |-> FALSE],  \* segment\\.com
    [re |-> <<"g", "o", "o", "g", "l", "e", "-", "a", "n", "a", "l", "y", "t", "i", "c", "s", "\\", ANY, "c", "o", "m">>, eol |-> FALSE],  \* google-analytics\\.com
    [re |-> <<"g", "o", "o", "g", "l", "e", "t", "a", "g", "m", "a", "n", "a", "g", "e", "r">>, eol |-> FALSE],  \* googletagmanager
    [re |-> <<"f", "a", "c", "e", "b", "o", "o", "k", "\\", ANY, "c", "o", "m">>, eol |-> FALSE],  \* facebook\\.com
    [re |-> <<"t", "w", "i", "t", "t", "e", "r", "\\", ANY, "c", "o", "m">>, eol |-> FALSE],  \* twitter\\.com
    [re |-> <<"l", "i", "n", "k", "e", "d", "i", "n", "\\", ANY, "c", "o", "m">>, eol |-> FALSE],  \* linkedin\\.com
    [re |-> <<"h", "o", "t", "s", "p", "o", "t">>, eol |-> FALSE],  \* hotspot|hotjar
    [re |-> <<"h", "o", "t", "j", "a", "r">>, eol |-> FALSE],  \* hotspot|hotjar
    [re |-> <<"j", "q", "u", "e", "r", "y", "\\", ANY, "c", "o", "m">>, eol |-> TRUE],  \* jquery(?:\\.com$|\\.js)
    [re |-> <<"j", "q", "u", "e", "r", "y", "\\", ANY, "j", "s">>, eol |-> FALSE],  \* jquery(?:\\.com$|\\.js)
    [re |-> <<"b", "o", "o", "t", "s", "t", "r", "a", "p", "\\", ANY, "j", "s">>, eol |-> FALSE],  \* bootstrap(?:\\.js)
    [re |-> <<"c", "d", "n", "\\", ANY, "j", "s", "\\", ANY>>, eol |-> FALSE],  \* cdn\\.js\\.
    [re |-> <<"c", "l", "o", "u", "d", "f", "l", "a", "r", "e", "\\", ANY, "c", "o", "m">>, eol |-> FALSE],  \* cloudflare\\.com
    [re |-> <<"p", "o", "l", "y", "f", "i", "l", "l", "\\", ANY, "i", "o">>, eol |-> FALSE],  \* polyfill\\.io
    [re |-> <<"a", "d", "s", "\\", ANY>>, eol |-> FALSE],  \* ads?\\.
    [re |-> <<"a", "d", "\\", ANY>>, eol |-> FALSE],  \* ads?\\.
    [re |-> <<"t", "r", "a", "c", "k", "i", "n", "g", "\\", ANY, "j", "s">>, eol |-> FALSE],  \* track(?:ing)?\\.js
    [re |-> <<"t", "r", "a", "c", "k", "\\", ANY, "j", "s">>, eol |-> FALSE],  \* track(?:ing)?\\.js
    [re |-> <<"a", "n", "a", "l", "y", "t", "i", "c", "s", "\\", ANY, "j", "s">>, eol |-> FALSE],  \* analytics\\.js
    [re |-> <<"g", "t", "m", "\\", ANY, "j", "s">>, eol |-> FALSE],  \* gtm\\.js
    [re |-> <<"o", "p", "t", "i", "m", "i", "z", "e", "l", "y", "\\", ANY, "c", "o", "m">>, eol |-> FALSE],  \* optimizely\\.com
    [re |-> <<"w", "e", "b", "p", "a", "c", "k">>, eol |-> FALSE],  \* webpack
    [re |-> <<"r", "e", "a", "c", "t">>, eol |-> FALSE],  \* react
    [re |-> <<"v", "u", "e">>, eol |-> FALSE],  \* vue
    [re |-> <<"a", "n", "g", "u", "l", "a", "r">>, eol |-> FALSE],  \* angular
    [re |-> <<"\\", ANY, "w", "o", "f", "f", "\\", ANY, "j", "s">>, eol |-> TRUE],  \* \\.(?:woff|woff2|ttf|eot|svg|png|jpg)\\.js$
    [re |-> <<"\\", ANY, "w", "o", "f", "f", "2", "\\", ANY, "j", "s">>, eol |-> TRUE],  \* \\.(?:woff|woff2|ttf|eot|svg|png|jpg)\\.js$
    [re |-> <<"\\", ANY, "t", "t", "f", "\\", ANY, "j", "s">>, eol |-> TRUE],  \* \\.(?:woff|woff2|ttf|eot|svg|png|jpg)\\.js$
    [re |-> <<"\\", ANY, "e", "o", "t", "\\", ANY, "j", "s">>, eol |-> TRUE],  \* \\.(?:woff|woff2|ttf|eot|svg|png|jpg)\\.js$
    [re |-> <<"\\", ANY, "s", "v", "g", "\\", ANY, "j", "s">>, eol |-> TRUE],  \* \\.(?:woff|woff2|ttf|eot|svg|png|jpg)\\.js$
    [re |-> <<"\\", ANY, "p", "n", "g", "\\", ANY, "j", "s">>, eol |-> TRUE],  \* \\.(?:woff|woff2|ttf|eot|svg|png|jpg)\\.js$
    [re |-> <<"\\", ANY, "j", "p", "g", "\\", ANY, "j", "s">>, eol |-> TRUE]  \* \\.(?:woff|woff2|ttf|eot|svg|png|jpg)\\.js$
>>

\* whether flat pattern p matches text at index i
MatchAt(p, text, i) ==
    /\ i + Len(p.re) - 1 <= Len(text)
    /\ \A k \in 1..Len(p.re) : p.re[k] = ANY \/ p.re[k] = text[i + k - 1]
    /\ p.eol => i + Len(p.re) - 1 = Len(text)

\* re.search(pattern, text) is not None
re_search(p, text) == \E i \in 1..(Len(text) + 1) : MatchAt(p, text, i)

\* src 60-66
is_interesting_js(url, uninteresting_patterns) ==
    LET lower_url == Lower(url)
    IN  ~ \E k \in DOMAIN uninteresting_patterns : re_search(uninteresting_patterns[k], lower_url)

\* src 68-74
is_interesting_inline_script(content, uninteresting_patterns) ==
    LET lower_content == Lower(content)
    IN  ~ \E k \in DOMAIN uninteresting_patterns :
            re_search(uninteresting_patterns[k], lower_content)

\* ------------------------------------------------------------------------
\* urllib.parse, for absolute URLs and the href shapes of the modelled pages
\* ------------------------------------------------------------------------

SchemeChars == {"+", "-", "."} \cup Digits

uses_netloc == {<<"h", "t", "t", "p">>, <<"h", "t", "t", "p", "s">>}

\* the index of the ':' ending the scheme at index i of url, 0 when url has none
SchemeEndAt(url, i) ==
    IF /\ i > 1
       /\ IsAlpha(url[1])
       /\ \A j \in 1..(i - 1) : IsAlpha(url[j]) \/ url[j] \in SchemeChars
    THEN i
    ELSE 0

SchemeEnd(url) == SchemeEndAt(url, Find(url, {":"}))

\* text.split(sep, 1) at index i of the separator (0: no separator)
SplitAt(text, i) ==
    IF i = 0 THEN [head |-> text, tail |-> << >>]
    ELSE [head |-> SubSeq(text, 1, i - 1), tail |-> From(text, i + 1)]

\* the netloc of "//netloc..." and what follows it; d is the index of the
\* first of "/?#" after the two slashes
NetlocAt(after, d) ==
    IF d = 0 THEN [netloc |-> after, rest |-> << >>]
    ELSE [netloc |-> SubSeq(after, 1, d - 1), rest |-> From(after, d)]

SplitNetloc(rest) ==
    IF StartsWith(rest, <<"/", "/">>)
    THEN NetlocAt(From(rest, 3), Find(From(rest, 3), {"/", "?", "#"}))
    ELSE [netloc |-> << >>, rest |-> rest]

ParsedUrl(scheme, netloc, pq, fragment) ==
    [scheme |-> scheme, netloc |-> netloc, path |-> pq.head, query |-> pq.tail,
     fragment |-> fragment]

ParseTail(scheme, netloc, f) ==
    ParsedUrl(scheme, netloc, SplitAt(f.head, Find(f.head, {"?"})), f.tail)

ParseRest(scheme, n) ==
    ParseTail(scheme, n.netloc, SplitAt(n.rest, Find(n.rest, {"#"})))

ParseFrom(url, i) ==
    IF i > 0 THEN ParseRest(Lower(SubSeq(url, 1, i - 1)), SplitNetloc(From(url, i + 1)))
    ELSE ParseRest(<< >>, SplitNetloc(url))

\* urlparse(url): scheme (lowercased), netloc, path, query, fragment
urlparse(url) == ParseFrom(url, SchemeEnd(url))

AddFragment(url, fragment) ==
    IF fragment # << >> THEN url \o <<"#">> \o fragment ELSE url

AddQuery(url, query) ==
    IF query # << >> THEN url \o <<"?">> \o query ELSE url

AddScheme(url, scheme) ==
    IF scheme # << >> THEN scheme \o <<":">> \o url ELSE url

AddNetloc(path, scheme, netloc) ==
    IF netloc # << >> \/
       (scheme # << >> /\ scheme \in uses_netloc /\ ~StartsWith(path, <<"/", "/">>))
    THEN <<"/", "/">> \o netloc \o
         (IF path # << >> /\ path[1] # "/" THEN <<"/">> ELSE << >>) \o path
    ELSE path

\* urlunparse((scheme, netloc, path, '', query, fragment))
urlunparse(p) ==
    AddFragment(AddQuery(AddScheme(AddNetloc(p.path, p.scheme, p.netloc), p.scheme),
                         p.query), p.fragment)

\* the directory part of a base path: up to and including its last '/'
DirOf(path) ==
    IF \E i \in 1..Len(path) : path[i] = "/"
    THEN SubSeq(path, 1, CHOOSE i \in 1..Len(path) :
                    path[i] = "/" /\ \A j \in (i + 1)..Len(path) : path[j] # "/")
    ELSE <<"/">>

JoinParsed(base, url, b, u) ==
    IF url = << >> THEN base
    ELSE IF u.scheme # b.scheme \/ u.scheme \notin uses_netloc THEN url
    ELSE IF u.netloc # << >> THEN urlunparse(u)
    ELSE IF u.path = << >>
         THEN urlunparse([u EXCEPT !.netloc = b.netloc, !.path = b.path,
                                   !.query = IF u.query # << >> THEN u.query ELSE b.query])
    ELSE IF u.path[1] = "/" THEN urlunparse([u EXCEPT !.netloc = b.netloc])
    ELSE urlunparse([u EXCEPT !.netloc = b.netloc, !.path = DirOf(b.path) \o u.path])

\* urlparse(url, scheme=bscheme)
WithDefaultScheme(u, bscheme) ==
    IF u.scheme = << >> THEN [u EXCEPT !.scheme = bscheme] ELSE u

JoinWithBase(base, url, b) ==
    JoinParsed(base, url, b, WithDefaultScheme(urlparse(url), b.scheme))

\* urljoin(base, url) for an absolute base; a relative path is joined without
\* resolving "." and ".." segments (the modelled hrefs hold none)
urljoin(base, url) == JoinWithBase(base, url, urlparse(base))

\* ------------------------------------------------------------------------
\* Identity and naming
\* ------------------------------------------------------------------------

ForbiddenChars == {"<", ">", ":", "\"", "/", "\\", "|", "?", "*", "'"}

\* re.sub(r'_+', '_', text)
RECURSIVE CollapseUnderscores(_)
CollapseUnderscores(text) ==
    IF Len(text) < 2 THEN text
    ELSE IF text[1] = "_" /\ text[2] = "_" THEN CollapseUnderscores(Tail(text))
    ELSE <<text[1]>> \o CollapseUnderscores(Tail(text))

\* re.sub(r'[<>:"/\\|?*\']', '_', text)
ReplaceForbidden(text) ==
    [i \in 1..Len(text) |-> IF text[i] \in ForbiddenChars THEN "_" ELSE text[i]]

\* src 76-84
sanitize_filename_part(text) == Strip(CollapseUnderscores(ReplaceForbidden(text)), "_")

\* src 109-110: parsed.netloc or parsed.path, lowercased
DomainOfParsed(parsed) ==
    Lower(IF parsed.netloc # << >> THEN parsed.netloc ELSE parsed.path)

\* src 103-110
get_domain_from_url(url) == DomainOfParsed(urlparse(url))

\* src 287-288: a leading 'www.' is cut off
StripWww(netloc) ==
    IF StartsWith(netloc, <<"w", "w", "w", ".">>) THEN From(netloc, 5) ELSE netloc

\* src 286-291
NormalizeParsed(parsed) ==
    urlunparse([scheme |-> Lower(parsed.scheme), netloc |-> StripWww(Lower(parsed.netloc)),
                path |-> RStrip(parsed.path, "/"), query |-> << >>, fragment |-> << >>])

\* src 280-291
normalize_url(url) == NormalizeParsed(urlparse(url))

\* ------------------------------------------------------------------------
\* The modelled site: the target, the responses its pages load, the links
\* and inline scripts of its pages
\* ------------------------------------------------------------------------

\* "https://example.com/"
target_url == <<"h", "t", "t", "p", "s", ":", "/", "/", "e", "x", "a", "m", "p", "l", "e", ".",
    "c", "o", "m", "/">>

\* "https://example.com/app.js"
Url_app == <<"h", "t", "t", "p", "s", ":", "/", "/", "e", "x", "a", "m", "p", "l", "e", ".",
    "c", "o", "m", "/", "a", "p", "p", ".", "j", "s">>

\* "https://ads.example.net/track.js"
Url_track == <<"h", "t", "t", "p", "s", ":", "/", "/", "a", "d", "s", ".", "e", "x", "a", "m",
    "p", "l", "e", ".", "n", "e", "t", "/", "t", "r", "a", "c", "k", ".", "j", "s">>

\* "https://Example.com/b/app.js"
Url_copy == <<"h", "t", "t", "p", "s", ":", "/", "/", "E", "x", "a", "m", "p", "l", "e", ".",
    "c", "o", "m", "/", "b", "/", "a", "p", "p", ".", "j", "s">>

\* "https://example.com/tiny.js"
Url_tiny == <<"h", "t", "t", "p", "s", ":", "/", "/", "e", "x", "a", "m", "p", "l", "e", ".",
    "c", "o", "m", "/", "t", "i", "n", "y", ".", "j", "s">>

\* "https://example.com/logo.png"
Url_logo == <<"h", "t", "t", "p", "s", ":", "/", "/", "e", "x", "a", "m", "p", "l", "e", ".",
    "c", "o", "m", "/", "l", "o", "g", "o", ".", "p", "n", "g">>

\* "https://example.com/vendor/lib.js"
Url_vendor == <<"h", "t", "t", "p", "s", ":", "/", "/", "e", "x", "a", "m", "p", "l", "e", ".",
    "c", "o", "m", "/", "v", "e", "n", "d", "o", "r", "/", "l", "i", "b", ".", "j", "s">>

\* "/b"
Href_b == <<"/", "b">>

\* "/b/"
Href_b_slash == <<"/", "b", "/">>

\* "/c"
Href_c == <<"/", "c">>

\* "/"
Href_root == <<"/">>

\* "#top"
Href_top == <<"#", "t", "o", "p">>

\* "https://other.net/x"
Href_other == <<"h", "t", "t", "p", "s", ":", "/", "/", "o", "t", "h", "e", "r", ".", "n", "e",
    "t", "/", "x">>

\* "https://www.example.com/c"
Href_www == <<"h", "t", "t", "p", "s", ":", "/", "/", "w", "w", "w", ".", "e", "x", "a", "m",
    "p", "l", "e", ".", "c", "o", "m", "/", "c">>

\* "mailto:a@example.com"
Href_mail == <<"m", "a", "i", "l", "t", "o", ":", "a", "@", "e", "x", "a", "m", "p", "l", "e",
    ".", "c", "o", "m">>

\* "let x=1;"
Script_app == <<"l", "e", "t", " ", "x", "=", "1", ";">>

\* "vue"
Script_vue == <<"v", "u", "e">>

\* the non-ASCII character U+00E9 followed by ';' (2 characters, 3 bytes in UTF-8)
Script_accent == <<"U+00E9", ";">>

\* bytes of "let x=1;" (8 bytes), sha256 3eb87fd76c16c3336fa803a044595da1cab1be40c3a6f69e18126f48d5b36ddb
Body_app == <<"l", "e", "t", " ", "x", "=", "1", ";">>
Sha_Body_app == <<"3", "e", "b", "8", "7", "f", "d", "7", "6", "c", "1", "6", "c", "3", "3",
    "3", "6", "f", "a", "8", "0", "3", "a", "0", "4", "4", "5", "9", "5", "d", "a", "1", "c",
    "a", "b", "1", "b", "e", "4", "0", "c", "3", "a", "6", "f", "6", "9", "e", "1", "8", "1",
    "2", "6", "f", "4", "8", "d", "5", "b", "3", "6", "d", "d", "b">>
\* bytes of "track();" (8 bytes), sha256 b2f81c0c07c51f2bf7d6ac2fd8876cd0096c7066250bfc2bb5b61e994cd487d1
Body_track == <<"t", "r", "a", "c", "k", "(", ")", ";">>
Sha_Body_track == <<"b", "2", "f", "8", "1", "c", "0", "c", "0", "7", "c", "5", "1", "f", "2",
    "b", "f", "7", "d", "6", "a", "c", "2", "f", "d", "8", "8", "7", "6", "c", "d", "0", "0",
    "9", "6", "c", "7", "0", "6", "6", "2", "5", "0", "b", "f", "c", "2", "b", "b", "5", "b",
    "6", "1", "e", "9", "9", "4", "c", "d", "4", "8", "7", "d", "1">>
\* bytes of "a;" (2 bytes), sha256 beb5335e463d92c11c582376e88a875072ad2bed0ec7c4e84b09b54203613142
Body_tiny == <<"a", ";">>
Sha_Body_tiny == <<"b", "e", "b", "5", "3", "3", "5", "e", "4", "6", "3", "d", "9", "2", "c",
    "1", "1", "c", "5", "8", "2", "3", "7", "6", "e", "8", "8", "a", "8", "7", "5", "0", "7",
    "2", "a", "d", "2", "b", "e", "d", "0", "e", "c", "7", "c", "4", "e", "8", "4", "b", "0",
    "9", "b", "5", "4", "2", "0", "3", "6", "1", "3", "1", "4", "2">>
\* bytes of "vendor()" (8 bytes), sha256 4ced88d7d27365902de5480caeccfae16f8f3b088341e7a5941e01c9f35235a7
Body_vendor == <<"v", "e", "n", "d", "o", "r", "(", ")">>
Sha_Body_vendor == <<"4", "c", "e", "d", "8", "8", "d", "7", "d", "2", "7", "3", "6", "5", "9",
    "0", "2", "d", "e", "5", "4", "8", "0", "c", "a", "e", "c", "c", "f", "a", "e", "1", "6",
    "f", "8", "f", "3", "b", "0", "8", "8", "3", "4", "1", "e", "7", "a", "5", "9", "4", "1",
    "e", "0", "1", "c", "9", "f", "3", "5", "2", "3", "5", "a", "7">>
\* bytes of "U+00E9 ;" (3 bytes), sha256 4fc061f0061ec1d1d430042068bd1b48c7cc517af4f7ddd474c7fcd4e9f5ac3f
Body_accent == <<"xC3", "xA9", ";">>
Sha_Body_accent == <<"4", "f", "c", "0", "6", "1", "f", "0", "0", "6", "1", "e", "c", "1", "d",
    "1", "d", "4", "3", "0", "0", "4", "2", "0", "6", "8", "b", "d", "1", "b", "4", "8", "c",
    "7", "c", "c", "5", "1", "7", "a", "f", "4", "f", "7", "d", "d", "d", "4", "7", "4", "c",
    "7", "f", "c", "d", "4", "e", "9", "f", "5", "a", "c", "3", "f">>
\* bytes of "PNG" (3 bytes), sha256 796120837694d3f3f29259cfeb25091698c2a0aa87873658d840b4993ee889b3
Body_logo == <<"P", "N", "G">>
Sha_Body_logo == <<"7", "9", "6", "1", "2", "0", "8", "3", "7", "6", "9", "4", "d", "3", "f",
    "3", "f", "2", "9", "2", "5", "9", "c", "f", "e", "b", "2", "5", "0", "9", "1", "6", "9",
    "8", "c", "2", "a", "0", "a", "a", "8", "7", "8", "7", "3", "6", "5", "8", "d", "8", "4",
    "0", "b", "4", "9", "9", "3", "e", "e", "8", "8", "9", "b", "3">>
\* bytes of "vue" (3 bytes), sha256 564382267519ae7fa9d8eb1a87497058287cd1cd1a32f232ef27c4dff8259a19
Body_vue == <<"v", "u", "e">>
Sha_Body_vue == <<"5", "6", "4", "3", "8", "2", "2", "6", "7", "5", "1", "9", "a", "e", "7",
    "f", "a", "9", "d", "8", "e", "b", "1", "a", "8", "7", "4", "9", "7", "0", "5", "8", "2",
    "8", "7", "c", "d", "1", "c", "d", "1", "a", "3", "2", "f", "2", "3", "2", "e", "f", "2",
    "7", "c", "4", "d", "f", "f", "8", "2", "5", "9", "a", "1", "9">>

\* str.encode('utf-8'), one character
Utf8Char(c) == IF c = "U+00E9" THEN <<"xC3", "xA9">> ELSE <<c>>

\* str.encode('utf-8')
RECURSIVE encode_utf8(_)
encode_utf8(s) == IF s = << >> THEN << >> ELSE Utf8Char(Head(s)) \o encode_utf8(Tail(s))

\* hashlib.sha256(content).hexdigest(), tabulated on the modelled contents
sha256_hexdigest(content) ==
    CASE content = Body_app    -> Sha_Body_app
      [] content = Body_track  -> Sha_Body_track
      [] content = Body_tiny   -> Sha_Body_tiny
      [] content = Body_vendor -> Sha_Body_vendor
      [] content = Body_accent -> Sha_Body_accent
      [] content = Body_logo   -> Sha_Body_logo
      [] content = Body_vue    -> Sha_Body_vue

\* src 95-96: a trailing '.js' is cut off
DropJsSuffix(path) ==
    IF EndsWith(path, <<".", "j", "s">>) THEN SubSeq(path, 1, Len(path) - 3) ELSE path

\* src 92-99
FilenameOfParsed(parsed, content) ==
    sanitize_filename_part(parsed.netloc) \o <<"_">>
        \o sanitize_filename_part(DropJsSuffix(LStrip(parsed.path, "/"))) \o <<"_">>
        \o SubSeq(sha256_hexdigest(content), 1, 8) \o <<".", "j", "s">>

\* src 86-101
build_filename(url, content) == FilenameOfParsed(urlparse(url), content)

\* src 197: f"{domain}_inline_{content_hash[:8]}.js"
inline_filename(dom, content_hash) ==
    dom \o <<"_", "i", "n", "l", "i", "n", "e", "_">> \o SubSeq(content_hash, 1, 8)
        \o <<".", "j", "s">>

\* the responses a page of the site may load: url, resource type, body
Responses == {
    [url |-> Url_app,    resource_type |-> "script",   body |-> Body_app],
    [url |-> Url_track,  resource_type |-> "script",   body |-> Body_track],
    [url |-> Url_copy,   resource_type |-> "fetch",    body |-> Body_app],
    [url |-> Url_tiny,   resource_type |-> "xhr",      body |-> Body_tiny],
    [url |-> Url_logo,   resource_type |-> "image",    body |-> Body_logo],
    [url |-> Url_vendor, resource_type |-> "script",   body |-> Body_vendor] }

\* the a[href] attributes of the page served for a URL, in DOM order
\* (pages A = /, B = /b, C = /c; A -> B -> C -> A is a cycle)
LinksOfPath(path) ==
    CASE path = << >>   -> <<Href_b, Href_top, Href_b_slash, Href_c, Href_other>>
      [] path = Href_b  -> <<Href_c, Href_www, Href_mail>>
      [] path = Href_c  -> <<Href_root, Href_b>>
      [] OTHER          -> << >>

PageLinks(url) == LinksOfPath(RStrip(urlparse(url).path, "/"))

\* the URLs a crawl from target_url can come across: the hrefs of every page,
\* resolved as src 323 resolves them
RECURSIVE Closure(_)
Closure(urls) ==
    LET more == urls \cup UNION {{urljoin(u, PageLinks(u)[k]) : k \in DOMAIN PageLinks(u)} :
                                  u \in urls}
    IN  IF more = urls THEN urls ELSE Closure(more)

SiteUrls == Closure({target_url})

\* query_selector_all('a[href]') and get_attribute('href') (src 317, 321),
\* tabulated over SiteUrls
Attrs == [u \in SiteUrls |-> PageLinks(u)]

\* src 323: urljoin(current_url, href), tabulated over SiteUrls
Resolved == [u \in SiteUrls |-> [k \in DOMAIN PageLinks(u) |-> urljoin(u, PageLinks(u)[k])]]

\* src 303, 324: normalize_url, tabulated over SiteUrls
Normalized == [u \in SiteUrls |-> normalize_url(u)]

\* src 325: get_domain_from_url, tabulated over SiteUrls
DomainOf == [u \in SiteUrls |-> get_domain_from_url(u)]

\* the text of the <script> elements of the root page, in DOM order
RootScripts == <<Script_app, << >>, Script_vue, Script_app, Script_accent>>

\* ------------------------------------------------------------------------
\* Bounds of the model
\* ------------------------------------------------------------------------

\* largest --max-depth explored
MaxDepth == 2

\* response events delivered in one session
MaxEvents == 2

\* failures (navigation, body read, file write, page creation, DOM access)
\* the environment injects in one session
MaxFaults == 1

\* the --min-size values explored (the contents are 2, 3 and 8 bytes long)
MinSizes == {3, 8}

FilterModes == {"strict", "relaxed"}

\* ------------------------------------------------------------------------
\* State
\* ------------------------------------------------------------------------

VARIABLES
    crawl,                 \* arguments of download_js_files, fixed for the session
    max_depth,
    include_cross_origin,
    min_size,
    filter_mode,
    pc,                    \* position of download_js_files
    hash_set,              \* src 255
    errors,                \* src 256
    skipped_counters,      \* src 257
    files,                 \* the .js files of output_dir: {[name, content]}
    tasks,                 \* bag of on_response tasks suspended in response.body()
    stack,                 \* activation records of crawl_links, innermost last
    visited,               \* src 301
    inline_scripts,        \* src 342
    si,                    \* position of the loop of process_inline_scripts
    inline_count,          \* src 180
    summary,               \* what the "Download Complete" block printed
    raised,                \* the exception leaving download_js_files, if any
    nev,                   \* response events delivered so far
    faults,                \* failures that have occurred, by kind
    log_errors,            \* log.error calls of on_response (src 170)
    writes,                \* completed file writes, by content hash
    claimed,               \* every hash_set.add: who claimed which hash
    nav_log,               \* the pages crawl_links has navigated, in order
    ignored,               \* responses on_response returned from before body(), by check
    cancelled,             \* tasks cancelled when the event loop closed
    handlers,              \* pages with on_response registered: 0 the root page, k > 0
                           \* the k-th page opened by crawl_links
    closes,                \* closes[k]: page.close() calls on the k-th crawl page
    call,                  \* a helper function applied on its own, and its arguments
    ret,                   \* what that call returned
    inline_entry           \* skipped_counters as process_inline_scripts was called

vars == <<crawl, max_depth, include_cross_origin, min_size, filter_mode, pc, hash_set,
          errors, skipped_counters, files, tasks, stack, visited, inline_scripts, si,
          inline_count, summary, raised, nev, faults, log_errors, writes, claimed,
          nav_log, ignored, cancelled, handlers, closes, call, ret, inline_entry>>

\* untouched by a session
probe == <<call, ret>>

\* no helper is being applied on its own
NoCall == [fn |-> "none", a |-> << >>, b |-> << >>]

args == <<crawl, max_depth, include_cross_origin, min_size, filter_mode>>

\* src 215, 247
domain == get_domain_from_url(target_url)

\* src 231
PatternsOf(mode) ==
    IF mode = "strict" THEN UNINTERESTING_JS_STRICT ELSE UNINTERESTING_JS_RELAXED

uninteresting_patterns == PatternsOf(filter_mode)

FaultKinds == {"setup", "root_nav", "scroll", "crawl_nav", "new_page", "links", "href",
               "content", "body", "write", "inline_write"}

FaultTotal == faults["setup"] + faults["root_nav"] + faults["scroll"] + faults["crawl_nav"]
              + faults["new_page"]
              + faults["links"] + faults["href"] + faults["content"] + faults["body"]
              + faults["write"] + faults["inline_write"]

\* the environment may still inject a failure
MayFail == FaultTotal < MaxFaults

Fault(kind) == [faults EXCEPT ![kind] = @ + 1]

\* src 255-259 and the arguments accepted by the command line (src 444-477)
Init ==
    /\ crawl \in BOOLEAN
    /\ max_depth \in 0..MaxDepth
    /\ include_cross_origin \in BOOLEAN
    /\ min_size \in MinSizes
    /\ filter_mode \in FilterModes
    /\ pc = "setup"
    /\ hash_set = {}
    /\ errors = << >>
    /\ skipped_counters = [k \in {"small", "duplicate", "uninteresting"} |-> 0]
    /\ files = {}
    /\ tasks = EmptyBag
    /\ stack = << >>
    /\ visited = {}
    /\ inline_scripts = << >>
    /\ si = 0
    /\ inline_count = 0
    /\ summary = [emitted |-> FALSE]
    /\ raised = "none"
    /\ nev = 0
    /\ faults = [k \in FaultKinds |-> 0]
    /\ log_errors = 0
    /\ writes = << >>
    /\ claimed = {}
    /\ nav_log = << >>
    /\ ignored = [k \in {"kind", "origin", "pattern"} |-> 0]
    /\ cancelled = 0
    /\ handlers = {}
    /\ closes = << >>
    /\ call = NoCall
    /\ ret = << >>
    /\ inline_entry = skipped_counters

\* ------------------------------------------------------------------------
\* The ledger steps shared by on_response and process_inline_scripts
\* ------------------------------------------------------------------------

\* the size check off by one
TooSmall_OffByOne(content) == Len(content) < min_size - 1

\* src 153, 187: len(content) < min_size
TooSmall(content) == Len(content) < min_size

\* no content is ever recognised
AlreadySeen_Never(content_hash) == FALSE

\* src 158, 192: content_hash in hash_set
AlreadySeen(content_hash) == content_hash \in hash_set

\* the hash is never added
HashSetAdd_Forgotten(content_hash) == hash_set

\* the set holds the newest hash only
HashSetAdd_Replace(content_hash) == {content_hash}

\* src 162, 196: hash_set.add(content_hash)
HashSetAdd(content_hash) == hash_set \cup {content_hash}

\* open(filepath, 'wb'); f.write(content): the file of that name now holds content
WriteFile(name, content) == {f \in files : f.name # name} \cup {[name |-> name, content |-> content]}

\* every skip is counted under the same key
RecordSkip_OneKey(reason) == [skipped_counters EXCEPT !["duplicate"] = @ + 1]

\* the skip is counted twice
RecordSkip_Twice(reason) == [skipped_counters EXCEPT ![reason] = @ + 2]

\* src 155, 160, 184, 189, 194: skipped_counters[reason] += 1
RecordSkip(reason) == [skipped_counters EXCEPT ![reason] = @ + 1]

\* the failure is not recorded
RecordError_Dropped(entry) == errors

\* src 274, 334: errors.append(...)
RecordError(entry) == Append(errors, entry)

CountWrite(h) ==
    IF h \in DOMAIN writes THEN [writes EXCEPT ![h] = @ + 1] ELSE writes @@ (h :> 1)

\* ------------------------------------------------------------------------
\* on_response (src 144-173)
\* ------------------------------------------------------------------------

\* src 146
ScriptLike(response) == response.resource_type \in {"script", "fetch", "xhr"}

\* src 148-150: include_cross_origin or url_domain == domain
OriginAllowed(url, cross_origin) == cross_origin \/ get_domain_from_url(url) = domain

\* the origin check and the URL filter joined by "or" instead of "and"
Passes_Or(response, mode, cross_origin) ==
    /\ ScriptLike(response)
    /\ \/ OriginAllowed(response.url, cross_origin)
       \/ is_interesting_js(response.url, PatternsOf(mode))

\* src 146-150: the response gets as far as response.body()
Passes(response, mode, cross_origin) ==
    /\ ScriptLike(response)
    /\ OriginAllowed(response.url, cross_origin)
    /\ is_interesting_js(response.url, PatternsOf(mode))

\* src 146-150: the check at which on_response returns, "none" when the
\* response gets as far as response.body()
Refusal(response, mode, cross_origin) ==
    IF Passes(response, mode, cross_origin) THEN "none"
    ELSE IF ~ScriptLike(response) THEN "kind"
    ELSE IF ~OriginAllowed(response.url, cross_origin) THEN "origin"
    ELSE "pattern"

\* Refusal, tabulated for the modelled responses
Refused ==
    [mode \in FilterModes, cross_origin \in BOOLEAN |->
        [r \in Responses |-> Refusal(r, mode, cross_origin)]]

\* the handler is not registered
Register_Skipped(registered, page) == registered

\* src 263, 312: collect_js_urls(page, ...) registers on_response on the page
\* (src 173)
Register(registered, page) == registered \cup {page}

\* the open pages whose goto has been issued (src 269, 315)
Navigated ==
    (IF pc \in {"root_nav", "scroll", "crawl", "crawling", "extract", "inline", "closing"}
     THEN {0} ELSE {})
    \cup {stack[k].page : k \in {j \in DOMAIN stack :
                                    stack[j].pc \in {"nav", "links", "loop", "close"}}}

\* the pages that exist: the root page from setup_browser (src 136, 262) until
\* browser.close() (src 367), a crawl page from context.new_page() (src 311)
\* until its page.close() (src 336)
OpenPages ==
    (IF pc \in {"goto", "root_nav", "scroll", "crawl", "crawling", "extract", "inline", "closing"}
     THEN {0} ELSE {})
    \cup {k \in DOMAIN closes : closes[k] = 0}

\* the pages that deliver their responses to a handler
LivePages == Navigated \cap handlers

\* the event loop runs other tasks only while download_js_files is suspended
MainSuspended == pc \in {"root_nav", "scroll", "crawling", "extract", "closing", "stopping"}

\* Some live page delivers a response: the lambda of src 173 creates the task,
\* which runs to its first suspension, response.body() (src 146-152).  Every
\* page has the same handler, so the page is not part of the task.
OnResponse(response) ==
    /\ MainSuspended
    /\ LivePages # {}
    /\ nev < MaxEvents
    /\ nev' = nev + 1
    /\ LET refusal == Refused[filter_mode, include_cross_origin][response]
       IN  IF refusal = "none"
           THEN /\ tasks' = tasks (+) SetToBag({[url |-> response.url, body |-> response.body]})
                /\ UNCHANGED ignored
           ELSE /\ ignored' = [ignored EXCEPT ![refusal] = @ + 1]
                /\ UNCHANGED tasks
    /\ UNCHANGED <<args, probe, inline_entry, handlers, closes, pc, hash_set, errors, skipped_counters, files, stack, visited,
                   inline_scripts, si, inline_count, summary, raised, faults, log_errors,
                   writes, claimed, nav_log, cancelled>>

\* response.body() raises: src 169-170
BodyFails(t) ==
    /\ MainSuspended
    /\ BagIn(t, tasks)
    /\ MayFail \/ pc = "stopping"
    /\ tasks' = tasks (-) SetToBag({t})
    /\ faults' = Fault("body")
    /\ log_errors' = log_errors + 1
    /\ UNCHANGED <<args, probe, inline_entry, handlers, closes, pc, hash_set, errors, skipped_counters, files, stack, visited,
                   inline_scripts, si, inline_count, summary, raised, nev, writes, claimed,
                   nav_log, cancelled, ignored>>

\* response.body() returns and the body is undersized: src 153-156
BodySmall(t) ==
    /\ MainSuspended /\ pc # "stopping"
    /\ BagIn(t, tasks)
    /\ TooSmall(t.body)
    /\ tasks' = tasks (-) SetToBag({t})
    /\ skipped_counters' = RecordSkip("small")
    /\ UNCHANGED <<args, probe, inline_entry, handlers, closes, pc, hash_set, errors, files, stack, visited, inline_scripts, si,
                   inline_count, summary, raised, nev, faults, log_errors, writes, claimed,
                   nav_log, cancelled, ignored>>

\* response.body() returns a body seen before: src 157-161
BodyDuplicate(t) ==
    /\ MainSuspended /\ pc # "stopping"
    /\ BagIn(t, tasks)
    /\ ~TooSmall(t.body)
    /\ AlreadySeen(sha256_hexdigest(t.body))
    /\ tasks' = tasks (-) SetToBag({t})
    /\ skipped_counters' = RecordSkip("duplicate")
    /\ UNCHANGED <<args, probe, inline_entry, handlers, closes, pc, hash_set, errors, files, stack, visited, inline_scripts, si,
                   inline_count, summary, raised, nev, faults, log_errors, writes, claimed,
                   nav_log, cancelled, ignored>>

\* response.body() returns a new body: claim it and write the file, src 157-170
BodySave(t, write_ok) ==
    LET content_hash == sha256_hexdigest(t.body)
        filename     == build_filename(t.url, t.body)
    IN  /\ MainSuspended /\ pc # "stopping"
        /\ BagIn(t, tasks)
        /\ ~TooSmall(t.body)
        /\ ~AlreadySeen(content_hash)
        /\ write_ok \/ MayFail
        /\ tasks' = tasks (-) SetToBag({t})
        /\ hash_set' = HashSetAdd(content_hash)
        /\ claimed' = claimed \cup {[kind |-> "response", url |-> t.url, hash |-> content_hash]}
        /\ IF write_ok
           THEN /\ files' = WriteFile(filename, t.body)
                /\ writes' = CountWrite(content_hash)
                /\ UNCHANGED <<faults, log_errors>>
           ELSE /\ faults' = Fault("write")
                /\ log_errors' = log_errors + 1
                /\ UNCHANGED <<files, writes>>
        /\ UNCHANGED <<args, probe, inline_entry, handlers, closes, pc, errors, skipped_counters, stack, visited, inline_scripts, si,
                       inline_count, summary, raised, nev, nav_log, cancelled, ignored>>

\* ------------------------------------------------------------------------
\* download_js_files up to the crawl (src 259-278)
\* ------------------------------------------------------------------------

\* src 262-263: setup_browser, then collect_js_urls on the root page.  When
\* setup_browser raises, browser and playwright are still None and the
\* exception leaves download_js_files.
Setup(ok) ==
    /\ pc = "setup"
    /\ ok \/ MayFail
    /\ IF ok
       THEN pc' = "goto" /\ handlers' = Register(handlers, 0) /\ UNCHANGED <<raised, faults>>
       ELSE pc' = "done" /\ raised' = "setup" /\ faults' = Fault("setup") /\ UNCHANGED handlers
    /\ UNCHANGED <<args, probe, inline_entry, closes, hash_set, errors, skipped_counters, files, tasks, stack, visited,
                   inline_scripts, si, inline_count, summary, nev, log_errors, writes,
                   claimed, nav_log, cancelled, ignored>>

\* src 269: page.goto(target_url) is issued
RootGoto ==
    /\ pc = "goto"
    /\ pc' = "root_nav"
    /\ UNCHANGED <<args, probe, inline_entry, handlers, closes, hash_set, errors, skipped_counters, files, tasks, stack, visited,
                   inline_scripts, si, inline_count, summary, raised, nev, faults,
                   log_errors, writes, claimed, nav_log, cancelled, ignored>>

\* src 269-274: the navigation and its settle wait return, or one of them
\* raises and the error is recorded
RootNavDone(ok) ==
    /\ pc = "root_nav"
    /\ ok \/ MayFail
    /\ pc' = "scroll"
    /\ IF ok
       THEN UNCHANGED <<errors, faults>>
       ELSE /\ errors' = RecordError([ctx |-> "Initial navigation error", url |-> target_url])
            /\ faults' = Fault("root_nav")
    /\ UNCHANGED <<args, probe, inline_entry, handlers, closes, hash_set, skipped_counters, files, tasks, stack, visited,
                   inline_scripts, si, inline_count, summary, raised, nev, log_errors,
                   writes, claimed, nav_log, cancelled, ignored>>

\* src 277-278: the scroll and its wait return, or raise outside any try but
\* the one whose finally closes the browser (src 364-369)
Scroll(ok) ==
    /\ pc = "scroll"
    /\ ok \/ MayFail
    /\ IF ok
       THEN pc' = "crawl" /\ UNCHANGED <<raised, faults>>
       ELSE pc' = "closing" /\ raised' = "scroll" /\ faults' = Fault("scroll")
    /\ UNCHANGED <<args, probe, inline_entry, handlers, closes, hash_set, errors, skipped_counters, files, tasks, stack, visited,
                   inline_scripts, si, inline_count, summary, nev, log_errors, writes,
                   claimed, nav_log, cancelled, ignored>>

\* ------------------------------------------------------------------------
\* crawl_links (src 293-336)
\* ------------------------------------------------------------------------

\* src 304: normalized_url in visited
AlreadyVisited(normalized_url) == normalized_url \in visited

\* src 298-305: the call returns before touching visited
Skips(normalized_url) == ~crawl \/ AlreadyVisited(normalized_url)

\* visited.add is never reached
EnterVisited_NoAdd(normalized_url) == visited

\* src 306: visited after the entry of a call whose URL normalizes to normalized_url
EnterVisited(normalized_url) ==
    IF Skips(normalized_url) THEN visited ELSE visited \cup {normalized_url}

\* src 308-311: the call goes on to open a page
Opens(normalized_url, depth) == ~Skips(normalized_url) /\ ~(depth <= 0)

\* the activation record of a call suspended in context.new_page() (src 311)
NewFrame(current_url, normalized_url, depth) ==
    [current_url |-> current_url, normalized_url |-> normalized_url, max_depth |-> depth,
     pc |-> "new_page", page |-> 0, hrefs |-> << >>, i |-> 0]

\* the loop stays on the same href
NextIndex_Stuck(i) == i

\* src 330: the loop moves to the next href
NextIndex(i) == i + 1

\* the depth is handed down unchanged
ChildDepth_Same(depth) == depth

\* src 331: max_depth - 1
ChildDepth(depth) == depth - 1

Top == stack[Len(stack)]

SetTop(frame) == [stack EXCEPT ![Len(stack)] = frame]

Pop == SubSeq(stack, 1, Len(stack) - 1)

CrawlError(url) == [ctx |-> "Crawl error", url |-> url]

\* the failure leaves the call and is caught by the caller's except instead
FailTop_Parent ==
    IF Len(stack) > 1 THEN [Pop EXCEPT ![Len(stack) - 1].pc = "close"]
    ELSE SetTop([Top EXCEPT !.pc = "close"])

\* src 332-336: the except of the call whose page failed, then its finally
FailTop == SetTop([Top EXCEPT !.pc = "close"])

\* the page is left open
ClosePage_Never(k) == closes

\* src 336: page.close() on the k-th crawl page
ClosePage(k) == [closes EXCEPT ![k] = @ + 1]

\* src 339: download_js_files calls crawl_links(context, target_url, max_depth)
CrawlCall ==
    /\ pc = "crawl"
    /\ LET normalized_url == Normalized[target_url]
       IN  /\ visited' = EnterVisited(normalized_url)
           /\ IF Opens(normalized_url, max_depth)
              THEN pc' = "crawling" /\ stack' = <<NewFrame(target_url, normalized_url, max_depth)>>
              ELSE pc' = "extract" /\ UNCHANGED stack
    /\ UNCHANGED <<args, probe, inline_entry, handlers, closes, hash_set, errors, skipped_counters, files, tasks, inline_scripts,
                   si, inline_count, summary, raised, nev, faults, log_errors, writes,
                   claimed, nav_log, cancelled, ignored>>

\* src 311-315: new_page returns, the handler is registered, goto is issued.
\* When new_page raises, the call has no try around it yet: the exception
\* reaches the caller, the except of the parent call (src 332-336) or
\* download_js_files itself.
NewPageDone(ok) ==
    /\ pc = "crawling" /\ Top.pc = "new_page"
    /\ ok \/ MayFail
    /\ IF ok
       THEN /\ stack' = SetTop([Top EXCEPT !.pc = "nav", !.page = Len(nav_log) + 1])
            /\ handlers' = Register(handlers, Len(nav_log) + 1)
            /\ closes' = Append(closes, 0)
            /\ nav_log' = Append(nav_log, [url |-> Top.current_url,
                                           normalized_url |-> Top.normalized_url])
            /\ UNCHANGED <<pc, errors, raised, faults>>
       ELSE /\ faults' = Fault("new_page")
            /\ UNCHANGED <<nav_log, handlers, closes>>
            /\ IF Len(stack) > 1
               THEN /\ stack' = [Pop EXCEPT ![Len(stack) - 1].pc = "close"]
                    /\ errors' = RecordError(CrawlError(stack[Len(stack) - 1].current_url))
                    /\ UNCHANGED <<pc, raised>>
               ELSE /\ stack' = << >>
                    /\ raised' = "new_page"
                    /\ pc' = "closing"
                    /\ UNCHANGED errors
    /\ UNCHANGED <<args, probe, inline_entry, hash_set, skipped_counters, files, tasks, visited, inline_scripts,
                   si, inline_count, summary, nev, log_errors, writes, claimed, cancelled, ignored>>

\* src 315-316, 332-334: the navigation of the crawl page returns or raises
NavDone(ok) ==
    /\ pc = "crawling" /\ Top.pc = "nav"
    /\ ok \/ MayFail
    /\ IF ok
       THEN /\ stack' = SetTop([Top EXCEPT !.pc = "links"])
            /\ UNCHANGED <<errors, faults>>
       ELSE /\ stack' = FailTop
            /\ errors' = RecordError(CrawlError(Top.current_url))
            /\ faults' = Fault("crawl_nav")
    /\ UNCHANGED <<args, probe, inline_entry, handlers, closes, pc, hash_set, skipped_counters, files, tasks, visited,
                   inline_scripts, si, inline_count, summary, raised, nev, log_errors,
                   writes, claimed, nav_log, cancelled, ignored>>

\* src 318-328: the hrefs kept from links k.. of the page; the link at index
\* lost is the one whose get_attribute raised (src 327-328), 0 for none
RECURSIVE CollectHrefs(_, _, _, _)
CollectHrefs(links, k, lost, current_url) ==
    IF k > Len(links) THEN << >>
    ELSE LET href == Resolved[current_url][k]
             keep == /\ k # lost
                     /\ links[k] # << >>
                     /\ DomainOf[href] = domain
                     /\ ~AlreadyVisited(Normalized[href])
         IN  (IF keep THEN <<href>> ELSE << >>) \o CollectHrefs(links, k + 1, lost, current_url)

\* src 317-328, 332-334: query_selector_all and the get_attribute calls return
\* (lost > 0: one get_attribute raised), or query_selector_all raises
LinksDone(ok, lost) ==
    /\ pc = "crawling" /\ Top.pc = "links"
    /\ lost \in 0..Len(Attrs[Top.current_url])
    /\ (ok /\ lost = 0) \/ MayFail
    /\ ~ok => lost = 0
    /\ IF ok
       THEN /\ stack' = SetTop([Top EXCEPT
                            !.pc = "loop", !.i = 1,
                            !.hrefs = CollectHrefs(Attrs[Top.current_url], 1, lost,
                                                   Top.current_url)])
            /\ faults' = IF lost = 0 THEN faults ELSE Fault("href")
            /\ UNCHANGED errors
       ELSE /\ stack' = FailTop
            /\ errors' = RecordError(CrawlError(Top.current_url))
            /\ faults' = Fault("links")
    /\ UNCHANGED <<args, probe, inline_entry, handlers, closes, pc, hash_set, skipped_counters, files, tasks, visited,
                   inline_scripts, si, inline_count, summary, raised, nev, log_errors,
                   writes, claimed, nav_log, cancelled, ignored>>

\* src 330-331: the loop calls crawl_links(context, href, max_depth - 1, visited)
Recurse ==
    /\ pc = "crawling" /\ Top.pc = "loop"
    /\ Top.i <= Len(Top.hrefs)
    /\ LET href    == Top.hrefs[Top.i]
           normalized_url == Normalized[href]
           advance == SetTop([Top EXCEPT !.i = NextIndex(@)])
       IN  /\ visited' = EnterVisited(normalized_url)
           /\ stack' = IF Opens(normalized_url, ChildDepth(Top.max_depth))
                       THEN Append(advance, NewFrame(href, normalized_url,
                                                     ChildDepth(Top.max_depth)))
                       ELSE advance
    /\ UNCHANGED <<args, probe, inline_entry, handlers, closes, pc, hash_set, errors, skipped_counters, files, tasks,
                   inline_scripts, si, inline_count, summary, raised, nev, faults,
                   log_errors, writes, claimed, nav_log, cancelled, ignored>>

\* src 330, 335-336: the loop is over, page.close() is awaited
LoopEnd ==
    /\ pc = "crawling" /\ Top.pc = "loop"
    /\ Top.i > Len(Top.hrefs)
    /\ stack' = SetTop([Top EXCEPT !.pc = "close"])
    /\ UNCHANGED <<args, probe, inline_entry, handlers, closes, pc, hash_set, errors, skipped_counters, files, tasks, visited,
                   inline_scripts, si, inline_count, summary, raised, nev, faults,
                   log_errors, writes, claimed, nav_log, cancelled, ignored>>

\* src 335-336: page.close() returns and the call returns to its caller
CloseDone ==
    /\ pc = "crawling" /\ Top.pc = "close"
    /\ stack' = Pop
    /\ closes' = ClosePage(Top.page)
    /\ handlers' = handlers \ {Top.page}
    /\ pc' = IF Len(stack) = 1 THEN "extract" ELSE pc
    /\ UNCHANGED <<args, probe, inline_entry, hash_set, errors, skipped_counters, files, tasks, visited,
                   inline_scripts, si, inline_count, summary, raised, nev, faults,
                   log_errors, writes, claimed, nav_log, cancelled, ignored>>

\* ------------------------------------------------------------------------
\* Inline scripts, summary and teardown (src 341-369)
\* ------------------------------------------------------------------------

\* src 120: the texts of the script elements, the empty ones dropped
NonEmpty(text) == text # << >>

\* src 112-123, 342, 353: page.content() returns, or raises and the list is
\* empty; process_inline_scripts is called on the list
Extract(ok) ==
    /\ pc = "extract"
    /\ ok \/ MayFail
    /\ inline_scripts' = IF ok THEN SelectSeq(RootScripts, NonEmpty) ELSE << >>
    /\ faults' = IF ok THEN faults ELSE Fault("content")
    /\ si' = 1
    /\ inline_entry' = skipped_counters
    /\ pc' = "inline"
    /\ UNCHANGED <<args, probe, handlers, closes, hash_set, errors, skipped_counters, files, tasks, stack, visited,
                   inline_count, summary, raised, nev, log_errors, writes, claimed,
                   nav_log, cancelled, ignored>>

InLoop == pc = "inline" /\ si <= Len(inline_scripts)

\* is_interesting_inline_script, tabulated for the scripts of the root page
InterestingScripts ==
    [mode \in FilterModes |->
        {RootScripts[k] : k \in {j \in DOMAIN RootScripts :
            is_interesting_inline_script(RootScripts[j], PatternsOf(mode))}}]

\* src 182: is_interesting_inline_script(script, uninteresting_patterns)
InterestingInline(script) == script \in InterestingScripts[filter_mode]

\* src 182-185
InlineUninteresting ==
    /\ InLoop
    /\ ~InterestingInline(inline_scripts[si])
    /\ skipped_counters' = RecordSkip("uninteresting")
    /\ si' = si + 1
    /\ UNCHANGED <<args, probe, inline_entry, handlers, closes, pc, hash_set, errors, files, tasks, stack, visited, inline_scripts,
                   inline_count, summary, raised, nev, faults, log_errors, writes, claimed,
                   nav_log, cancelled, ignored>>

\* src 186-190
InlineSmall ==
    /\ InLoop
    /\ InterestingInline(inline_scripts[si])
    /\ TooSmall(encode_utf8(inline_scripts[si]))
    /\ skipped_counters' = RecordSkip("small")
    /\ si' = si + 1
    /\ UNCHANGED <<args, probe, inline_entry, handlers, closes, pc, hash_set, errors, files, tasks, stack, visited, inline_scripts,
                   inline_count, summary, raised, nev, faults, log_errors, writes, claimed,
                   nav_log, cancelled, ignored>>

\* src 191-195
InlineDuplicate ==
    /\ InLoop
    /\ InterestingInline(inline_scripts[si])
    /\ ~TooSmall(encode_utf8(inline_scripts[si]))
    /\ AlreadySeen(sha256_hexdigest(encode_utf8(inline_scripts[si])))
    /\ skipped_counters' = RecordSkip("duplicate")
    /\ si' = si + 1
    /\ UNCHANGED <<args, probe, inline_entry, handlers, closes, pc, hash_set, errors, files, tasks, stack, visited, inline_scripts,
                   inline_count, summary, raised, nev, faults, log_errors, writes, claimed,
                   nav_log, cancelled, ignored>>

\* src 196-203: claim and write; a failing write is not caught anywhere in
\* process_inline_scripts or download_js_files, so it ends the session through
\* the finally of src 364-369
InlineSave(write_ok) ==
    LET content      == encode_utf8(inline_scripts[si])
        content_hash == sha256_hexdigest(content)
    IN  /\ InLoop
        /\ InterestingInline(inline_scripts[si])
        /\ ~TooSmall(content)
        /\ ~AlreadySeen(content_hash)
        /\ write_ok \/ MayFail
        /\ hash_set' = HashSetAdd(content_hash)
        /\ claimed' = claimed \cup {[kind |-> "inline", url |-> << >>, hash |-> content_hash]}
        /\ IF write_ok
           THEN /\ files' = WriteFile(inline_filename(domain, content_hash), content)
                /\ writes' = CountWrite(content_hash)
                /\ inline_count' = inline_count + 1
                /\ si' = si + 1
                /\ UNCHANGED <<pc, raised, faults>>
           ELSE /\ faults' = Fault("inline_write")
                /\ raised' = "inline_write"
                /\ pc' = "closing"
                /\ UNCHANGED <<files, writes, inline_count, si>>
        /\ UNCHANGED <<args, probe, inline_entry, handlers, closes, errors, skipped_counters, tasks, stack, visited, inline_scripts,
                       summary, nev, log_errors, nav_log, cancelled, ignored>>

\* src 204, 355-363: process_inline_scripts returns and the summary is printed
Summary ==
    /\ pc = "inline" /\ si > Len(inline_scripts)
    /\ summary' = [emitted |-> TRUE, downloaded |-> Cardinality(files),
                   skipped |-> skipped_counters, errors |-> errors]
    /\ pc' = "closing"
    /\ UNCHANGED <<args, probe, inline_entry, handlers, closes, hash_set, errors, skipped_counters, files, tasks, stack, visited,
                   inline_scripts, si, inline_count, raised, nev, faults, log_errors,
                   writes, claimed, nav_log, cancelled, ignored>>

\* src 366-367: browser.close() returns
BrowserClose ==
    /\ pc = "closing"
    /\ pc' = "stopping"
    /\ UNCHANGED <<args, probe, inline_entry, handlers, closes, hash_set, errors, skipped_counters, files, tasks, stack, visited,
                   inline_scripts, si, inline_count, summary, raised, nev, faults,
                   log_errors, writes, claimed, nav_log, cancelled, ignored>>

\* src 368-369, 511: playwright.stop() returns, download_js_files ends and
\* asyncio.run cancels the tasks that are still pending
PlaywrightStop ==
    /\ pc = "stopping"
    /\ pc' = "done"
    /\ cancelled' = BagCardinality(tasks)
    /\ tasks' = EmptyBag
    /\ UNCHANGED <<args, probe, inline_entry, handlers, closes, hash_set, errors, skipped_counters, files, stack, visited,
                   inline_scripts, si, inline_count, summary, raised, nev, faults,
                   log_errors, writes, claimed, nav_log, ignored>>

\* ------------------------------------------------------------------------
\* Specification
\* ------------------------------------------------------------------------

\* the steps of download_js_files and crawl_links
MainStep ==
    \/ \E ok \in BOOLEAN : Setup(ok)
    \/ RootGoto
    \/ \E ok \in BOOLEAN : RootNavDone(ok)
    \/ \E ok \in BOOLEAN : Scroll(ok)
    \/ CrawlCall
    \/ \E ok \in BOOLEAN : NewPageDone(ok)
    \/ \E ok \in BOOLEAN : NavDone(ok)
    \/ \E ok \in BOOLEAN, lost \in 0..5 : LinksDone(ok, lost)
    \/ Recurse
    \/ LoopEnd
    \/ CloseDone
    \/ \E ok \in BOOLEAN : Extract(ok)
    \/ InlineUninteresting
    \/ InlineSmall
    \/ InlineDuplicate
    \/ \E ok \in BOOLEAN : InlineSave(ok)
    \/ Summary
    \/ BrowserClose
    \/ PlaywrightStop

\* the steps of the on_response tasks
TaskStep ==
    \/ \E r \in Responses : OnResponse(r)
    \/ \E t \in BagToSet(tasks) : BodyFails(t)
    \/ \E t \in BagToSet(tasks) : BodySmall(t)
    \/ \E t \in BagToSet(tasks) : BodyDuplicate(t)
    \/ \E t \in BagToSet(tasks), ok \in BOOLEAN : BodySave(t, ok)

Next == MainStep \/ TaskStep

Spec == Init /\ [][Next]_vars

\* every awaited browser call returns or raises
FairSpec == Spec /\ WF_vars(MainStep)

\* ------------------------------------------------------------------------
\* The helper functions applied on their own
\* ------------------------------------------------------------------------

\* the calls: the inline file name of src 197 for a target and a content,
\* build_filename (src 86-101) for a source URL and a content, and
\* normalize_url (src 280-291) on two URLs that name the same crawl target
Calls ==
    [fn : {"inline_filename"},
     a : {
         \* "https://example.com/"
         <<"h", "t", "t", "p", "s", ":", "/", "/", "e", "x", "a", "m", "p", "l", "e", ".", "c",
         "o", "m", "/">>,
         \* "https://example.com:8080/"
         <<"h", "t", "t", "p", "s", ":", "/", "/", "e", "x", "a", "m", "p", "l", "e", ".", "c",
         "o", "m", ":", "8", "0", "8", "0", "/">>,
         \* "http://Example.com:8080/x"
         <<"h", "t", "t", "p", ":", "/", "/", "E", "x", "a", "m", "p", "l", "e", ".", "c", "o",
         "m", ":", "8", "0", "8", "0", "/", "x">>,
         \* "https://www.example.com/"
         <<"h", "t", "t", "p", "s", ":", "/", "/", "w", "w", "w", ".", "e", "x", "a", "m", "p",
         "l", "e", ".", "c", "o", "m", "/">>
         },
     b : {Body_app, Body_track, Body_tiny, Body_vendor, Body_accent, Body_logo, Body_vue}]
    \cup
    [fn : {"build_filename"},
     a : {
         \* "https://example.com/app.js"
         <<"h", "t", "t", "p", "s", ":", "/", "/", "e", "x", "a", "m", "p", "l", "e", ".", "c",
         "o", "m", "/", "a", "p", "p", ".", "j", "s">>,
         \* "https://Example.com/b/app.js"
         <<"h", "t", "t", "p", "s", ":", "/", "/", "E", "x", "a", "m", "p", "l", "e", ".", "c",
         "o", "m", "/", "b", "/", "a", "p", "p", ".", "j", "s">>,
         \* "https://example.com/vendor/lib.js"
         <<"h", "t", "t", "p", "s", ":", "/", "/", "e", "x", "a", "m", "p", "l", "e", ".", "c",
         "o", "m", "/", "v", "e", "n", "d", "o", "r", "/", "l", "i", "b", ".", "j", "s">>,
         \* "https://ads.example.net/track.js"
         <<"h", "t", "t", "p", "s", ":", "/", "/", "a", "d", "s", ".", "e", "x", "a", "m", "p",
         "l", "e", ".", "n", "e", "t", "/", "t", "r", "a", "c", "k", ".", "j", "s">>,
         \* "https://example.com:8080/app.js"
         <<"h", "t", "t", "p", "s", ":", "/", "/", "e", "x", "a", "m", "p", "l", "e", ".", "c",
         "o", "m", ":", "8", "0", "8", "0", "/", "a", "p", "p", ".", "j", "s">>,
         \* "https://example.com/a:b/c*d.js"
         <<"h", "t", "t", "p", "s", ":", "/", "/", "e", "x", "a", "m", "p", "l", "e", ".", "c",
         "o", "m", "/", "a", ":", "b", "/", "c", "*", "d", ".", "j", "s">>,
         \* "https://example.com/x'y|z.js"
         <<"h", "t", "t", "p", "s", ":", "/", "/", "e", "x", "a", "m", "p", "l", "e", ".", "c",
         "o", "m", "/", "x", "'", "y", "|", "z", ".", "j", "s">>,
         \* "https://example.com/"
         <<"h", "t", "t", "p", "s", ":", "/", "/", "e", "x", "a", "m", "p", "l", "e", ".", "c",
         "o", "m", "/">>,
         \* "https://example.com/a\b"<c>.js"
         <<"h", "t", "t", "p", "s", ":", "/", "/", "e", "x", "a", "m", "p", "l", "e", ".", "c",
         "o", "m", "/", "a", "\\", "b", "\"", "<", "c", ">", ".", "j", "s">>,
         \* "https://example.com/_/__.js"
         <<"h", "t", "t", "p", "s", ":", "/", "/", "e", "x", "a", "m", "p", "l", "e", ".", "c",
         "o", "m", "/", "_", "/", "_", "_", ".", "j", "s">>
         },
     b : {Body_app, Body_track, Body_tiny, Body_vendor, Body_accent, Body_logo, Body_vue}]
    \cup
    {[fn |-> "normalize_url", a |-> p[1], b |-> p[2]] : p \in {
         \* "HTTPS://Example.COM/b" and "https://example.com/b"
         <<<<"H", "T", "T", "P", "S", ":", "/", "/", "E", "x", "a", "m", "p", "l", "e", ".",
         "C", "O", "M", "/", "b">>, <<"h", "t", "t", "p", "s", ":", "/", "/", "e", "x", "a",
         "m", "p", "l", "e", ".", "c", "o", "m", "/", "b">>>>,
         \* "https://www.example.com/b" and "https://example.com/b"
         <<<<"h", "t", "t", "p", "s", ":", "/", "/", "w", "w", "w", ".", "e", "x", "a", "m",
         "p", "l", "e", ".", "c", "o", "m", "/", "b">>, <<"h", "t", "t", "p", "s", ":", "/",
         "/", "e", "x", "a", "m", "p", "l", "e", ".", "c", "o", "m", "/", "b">>>>,
         \* "https://example.com/b/" and "https://example.com/b"
         <<<<"h", "t", "t", "p", "s", ":", "/", "/", "e", "x", "a", "m", "p", "l", "e", ".",
         "c", "o", "m", "/", "b", "/">>, <<"h", "t", "t", "p", "s", ":", "/", "/", "e", "x",
         "a", "m", "p", "l", "e", ".", "c", "o", "m", "/", "b">>>>,
         \* "https://example.com/b?x=1" and "https://example.com/b"
         <<<<"h", "t", "t", "p", "s", ":", "/", "/", "e", "x", "a", "m", "p", "l", "e", ".",
         "c", "o", "m", "/", "b", "?", "x", "=", "1">>, <<"h", "t", "t", "p", "s", ":", "/",
         "/", "e", "x", "a", "m", "p", "l", "e", ".", "c", "o", "m", "/", "b">>>>,
         \* "https://example.com/b#top" and "https://example.com/b"
         <<<<"h", "t", "t", "p", "s", ":", "/", "/", "e", "x", "a", "m", "p", "l", "e", ".",
         "c", "o", "m", "/", "b", "#", "t", "o", "p">>, <<"h", "t", "t", "p", "s", ":", "/",
         "/", "e", "x", "a", "m", "p", "l", "e", ".", "c", "o", "m", "/", "b">>>>,
         \* "https://example.com:443/b" and "https://example.com/b"
         <<<<"h", "t", "t", "p", "s", ":", "/", "/", "e", "x", "a", "m", "p", "l", "e", ".",
         "c", "o", "m", ":", "4", "4", "3", "/", "b">>, <<"h", "t", "t", "p", "s", ":", "/",
         "/", "e", "x", "a", "m", "p", "l", "e", ".", "c", "o", "m", "/", "b">>>>,
         \* "http://example.com:80/b" and "http://example.com/b"
         <<<<"h", "t", "t", "p", ":", "/", "/", "e", "x", "a", "m", "p", "l", "e", ".", "c",
         "o", "m", ":", "8", "0", "/", "b">>, <<"h", "t", "t", "p", ":", "/", "/", "e", "x",
         "a", "m", "p", "l", "e", ".", "c", "o", "m", "/", "b">>>>,
         \* "https://example.com/" and "https://example.com"
         <<<<"h", "t", "t", "p", "s", ":", "/", "/", "e", "x", "a", "m", "p", "l", "e", ".",
         "c", "o", "m", "/">>, <<"h", "t", "t", "p", "s", ":", "/", "/", "e", "x", "a", "m",
         "p", "l", "e", ".", "c", "o", "m">>>>,
         \* "https://example.com:8080/b" and "https://example.com:8080/b/"
         <<<<"h", "t", "t", "p", "s", ":", "/", "/", "e", "x", "a", "m", "p", "l", "e", ".",
         "c", "o", "m", ":", "8", "0", "8", "0", "/", "b">>, <<"h", "t", "t", "p", "s", ":",
         "/", "/", "e", "x", "a", "m", "p", "l", "e", ".", "c", "o", "m", ":", "8", "0", "8",
         "0", "/", "b", "/">>>>
         }}

\* no session is running; one call is about to be made
PureInit ==
    /\ call \in Calls
    /\ ret = << >>
    /\ crawl = FALSE /\ max_depth = 0 /\ include_cross_origin = FALSE
    /\ min_size = 3 /\ filter_mode = "strict"
    /\ pc = "idle"
    /\ hash_set = {} /\ errors = << >> /\ files = {}
    /\ skipped_counters = [k \in {"small", "duplicate", "uninteresting"} |-> 0]
    /\ tasks = EmptyBag /\ stack = << >> /\ visited = {}
    /\ inline_scripts = << >> /\ si = 0 /\ inline_count = 0
    /\ summary = [emitted |-> FALSE]
    /\ raised = "none" /\ nev = 0 /\ faults = [k \in FaultKinds |-> 0]
    /\ log_errors = 0 /\ writes = << >> /\ claimed = {} /\ nav_log = << >>
    /\ ignored = [k \in {"kind", "origin", "pattern"} |-> 0]
    /\ cancelled = 0 /\ handlers = {} /\ closes = << >>
    /\ inline_entry = skipped_counters

\* src 191, 197: the name process_inline_scripts gives the file, where domain
\* is get_domain_from_url(url) (src 215, 247)
ApplyInlineFilename ==
    /\ call.fn = "inline_filename" /\ ret = << >>
    /\ ret' = inline_filename(get_domain_from_url(call.a), sha256_hexdigest(call.b))
    /\ UNCHANGED <<args, call, inline_entry, handlers, closes, pc, hash_set, errors, skipped_counters, files,
                   tasks, stack, visited, inline_scripts, si, inline_count, summary, raised,
                   nev, faults, log_errors, writes, claimed, nav_log, cancelled, ignored>>

\* src 163: filename = build_filename(url, content)
ApplyBuildFilename ==
    /\ call.fn = "build_filename" /\ ret = << >>
    /\ ret' = build_filename(call.a, call.b)
    /\ UNCHANGED <<args, call, inline_entry, handlers, closes, pc, hash_set, errors, skipped_counters, files,
                   tasks, stack, visited, inline_scripts, si, inline_count, summary, raised,
                   nev, faults, log_errors, writes, claimed, nav_log, cancelled, ignored>>

\* src 303: normalized_url = normalize_url(current_url), for both URLs
ApplyNormalize ==
    /\ call.fn = "normalize_url" /\ ret = << >>
    /\ ret' = <<normalize_url(call.a), normalize_url(call.b)>>
    /\ UNCHANGED <<args, call, inline_entry, handlers, closes, pc, hash_set, errors, skipped_counters, files,
                   tasks, stack, visited, inline_scripts, si, inline_count, summary, raised,
                   nev, faults, log_errors, writes, claimed, nav_log, cancelled, ignored>>

PureNext == ApplyInlineFilename \/ ApplyBuildFilename \/ ApplyNormalize

PureSpec == PureInit /\ [][PureNext]_vars

\* ------------------------------------------------------------------------
\* Properties
\* ------------------------------------------------------------------------

\* "example.com"
TargetHost == <<"e", "x", "a", "m", "p", "l", "e", ".", "c", "o", "m">>

\* "example.com_app_3eb87fd7.js"
AppFileName == <<"e", "x", "a", "m", "p", "l", "e", ".", "c", "o", "m", "_", "a", "p", "p", "_", "3",
    "e", "b", "8", "7", "f", "d", "7", ".", "j", "s">>

\* C1: whatever the interleaving of the response handlers of all pages and of
\* the inline-script loop, the bytes of one content hash are written to the
\* output directory at most once, however many URLs or inline scripts carry
\* that content; the test of hash_set and the add happen in one step.
C1_WrittenAtMostOnce ==
    /\ \A h \in DOMAIN writes : writes[h] <= 1
    /\ \A h \in DOMAIN writes : Cardinality({x \in claimed : x.hash = h}) = 1

\* a content written once that a second source presented afterwards
C1_Witness ==
    /\ \E h \in DOMAIN writes : writes[h] = 1
    /\ skipped_counters["duplicate"] >= 1
    /\ Cardinality(claimed) = 1

\* C2: at the end of the session every hash that was claimed in hash_set has
\* exactly one file in the output directory, also when the write that followed
\* the claim failed.
C2_OneFilePerClaimedHash ==
    pc = "done" =>
        \A h \in hash_set :
            Cardinality({f \in files : sha256_hexdigest(f.content) = h}) = 1

\* C3: crawl_links opens a page and navigates at most once for each
\* normalized URL, whatever the link graph.
C3_NavigatedAtMostOnce ==
    \A i, j \in DOMAIN nav_log :
        i # j => nav_log[i].normalized_url # nav_log[j].normalized_url

\* the crawl of the start page is over its loop; the page carried two hrefs
\* that normalize to the same URL, and a second page was navigated
C3_Witness ==
    /\ pc = "crawling"
    /\ Len(stack) = 1
    /\ stack[1].pc = "close"
    /\ \E i, j \in DOMAIN PageLinks(stack[1].current_url) :
          /\ i < j
          /\ normalize_url(urljoin(stack[1].current_url, PageLinks(stack[1].current_url)[i]))
               = normalize_url(urljoin(stack[1].current_url, PageLinks(stack[1].current_url)[j]))
    /\ Len(nav_log) = 2
    /\ FaultTotal = 0

\* C4: when every navigation and link query eventually returns or fails, the
\* call of crawl_links made by download_js_files eventually returns; with
\* crawling disabled it returns without opening a page.
C4_CrawlReturns ==
    /\ (pc \in {"crawl", "crawling"}) ~> (pc \in {"extract", "closing"})
    /\ [](~crawl => (stack = << >> /\ nav_log = << >>))

\* a crawl of depth 2 over the cycle has returned
C4_Witness ==
    /\ pc = "extract"
    /\ crawl
    /\ max_depth = 2
    /\ Cardinality(visited) = 3
    /\ FaultTotal = 0

\* C5: once the crawl has returned without a failure, every URL in visited was
\* navigated by a page with a registered collector: the root page for the
\* target, a crawl page for every other URL, the ones reached at depth 0 included.
C5_CollectorOnEveryVisited ==
    (pc = "extract" /\ FaultTotal = 0) =>
        \A v \in visited :
            \/ \E k \in DOMAIN nav_log : nav_log[k].normalized_url = v
            \/ v = normalize_url(target_url)

\* C6: in every reachable state no file of the output directory holds fewer
\* than min_size bytes, and no response body or inline script of fewer than
\* min_size bytes has its hash in hash_set.
C6_SizeFloor ==
    /\ \A f \in files : Len(f.content) >= min_size
    /\ \A r \in Responses :
          Len(r.body) < min_size => sha256_hexdigest(r.body) \notin hash_set
    /\ \A k \in DOMAIN RootScripts :
          (RootScripts[k] # << >> /\ Len(encode_utf8(RootScripts[k])) < min_size)
              => sha256_hexdigest(encode_utf8(RootScripts[k])) \notin hash_set

\* an undersized response body and an undersized inline script have both been
\* turned away while another asset was saved
C6_Witness ==
    /\ skipped_counters["small"] >= 2
    /\ pc = "inline"
    /\ si > 1
    /\ nev >= 1
    /\ files # {}

\* C7 as stated: every undersized inline script the loop of
\* process_inline_scripts handles, and every undersized body a response
\* handler reads, adds exactly one to skipped_counters['small'].
C7_EveryUndersizedCounted ==
    [][ /\ (/\ pc = "inline"
            /\ si \in DOMAIN inline_scripts
            /\ si' = si + 1
            /\ Len(encode_utf8(inline_scripts[si])) < min_size)
           => skipped_counters'["small"] = skipped_counters["small"] + 1
        /\ \A t \in BagToSet(tasks) :
              (/\ tasks' = tasks (-) SetToBag({t})
               /\ pc' = pc
               /\ log_errors' = log_errors
               /\ Len(t.body) < min_size)
              => skipped_counters'["small"] = skipped_counters["small"] + 1
      ]_vars

\* C7, amended: an undersized candidate that reaches the size check (a
\* response whose body was read, an inline script that passed the content
\* filter) adds exactly one to skipped_counters['small'] and nothing to the
\* other counters; an undersized inline script that matches an uninteresting
\* pattern adds one to 'uninteresting' and nothing to 'small'.
C7_UndersizedAtSizeCheck ==
    [][ /\ (/\ pc = "inline"
            /\ si \in DOMAIN inline_scripts
            /\ si' = si + 1
            /\ Len(encode_utf8(inline_scripts[si])) < min_size)
           => IF is_interesting_inline_script(inline_scripts[si], uninteresting_patterns)
              THEN skipped_counters' =
                       [skipped_counters EXCEPT !["small"] = @ + 1]
              ELSE skipped_counters' =
                       [skipped_counters EXCEPT !["uninteresting"] = @ + 1]
        /\ \A t \in BagToSet(tasks) :
              (/\ tasks' = tasks (-) SetToBag({t})
               /\ pc' = pc
               /\ log_errors' = log_errors
               /\ Len(t.body) < min_size)
              => skipped_counters' = [skipped_counters EXCEPT !["small"] = @ + 1]
      ]_vars

\* the loop has handled the undersized script "vue", which matches a pattern,
\* and an undersized script that matches none; an undersized body was read
C7_Witness ==
    /\ pc = "inline"
    /\ min_size = 8
    /\ si > Len(inline_scripts)
    /\ Len(inline_scripts) = 4
    /\ skipped_counters["uninteresting"] = 1
    /\ skipped_counters["small"] = 2

\* C8: with cross-origin inclusion disabled no response from a host other
\* than the target's is claimed in hash_set or written; when app.js is the
\* only asset claimed and written, the output directory holds the one file
\* example.com_app_3eb87fd7.js.
C8_SameOriginOnly ==
    ~include_cross_origin =>
        /\ \A x \in claimed :
              x.kind = "response" => Lower(urlparse(x.url).netloc) = TargetHost
        /\ \A f \in files : f.content # Body_track
        /\ (/\ claimed = {[kind |-> "response", url |-> Url_app, hash |-> Sha_Body_app]}
            /\ Sha_Body_app \in DOMAIN writes)
           => files = {[name |-> AppFileName, content |-> Body_app]}

\* both app.js and a response of another host were delivered; only app.js was
\* saved and the other was turned away by the origin check
C8_Witness ==
    /\ ~include_cross_origin
    /\ ignored["origin"] = 1
    /\ nev = 2
    /\ files = {[name |-> AppFileName, content |-> Body_app]}
    /\ pc = "done"

\* C9: every failure of a body read, of a file write (response or inline
\* script) and of a crawl navigation has its own entry in errors.
C9_FailuresInErrors ==
    /\ faults["crawl_nav"]
         <= Cardinality({i \in DOMAIN errors : errors[i].ctx = "Crawl error"})
    /\ faults["body"] + faults["write"] + faults["inline_write"]
         <= Cardinality({i \in DOMAIN errors :
                errors[i].ctx \notin {"Crawl error", "Initial navigation error"}})

\* C10: when the only failures are body reads and file writes, no exception
\* leaves download_js_files and a session that has ended has printed its summary.
C10_AssetFailuresNotFatal ==
    (FaultTotal = faults["body"] + faults["write"] + faults["inline_write"]) =>
        /\ raised = "none"
        /\ pc = "done" => summary.emitted

\* C11: every open page whose navigation has been issued, the root page and
\* each page of crawl_links, has on_response registered, so a response it
\* emits is handed to the handler
C11_RegisteredBeforeNavigation == Navigated \subseteq handlers

\* a crawl page is navigating with its handler registered, and a response of
\* the session has been delivered
C11_Witness ==
    /\ nev > 0
    /\ stack # << >>
    /\ Top.pc = "nav"
    /\ Top.page \in handlers
    /\ 0 \in handlers

\* C12: no handler that began to process a response is cancelled before it
\* ends in a write, a skip or a logged error
C12_NoHandlerCancelled == cancelled = 0

\* C13: a failure of the root navigation (src 266-274) is not fatal.  The
\* failing step appends exactly one "Initial navigation error" and leaves the
\* files and the hashes as they were; and when nothing else fails on the main
\* path, no file is lost afterwards, nothing is raised, the error list holds
\* that one entry, and the session ends having crawled (if enabled), processed
\* every inline script and emitted the summary
C13_RootNavFailureNotFatal ==
    [][ /\ faults'["root_nav"] > faults["root_nav"] =>
             /\ errors' = Append(errors, [ctx |-> "Initial navigation error", url |-> target_url])
             /\ files' = files /\ hash_set' = hash_set
             /\ raised' = "none" /\ pc' = "scroll"
        /\ (/\ faults'["root_nav"] = 1
            /\ \A k \in FaultKinds \ {"root_nav", "body", "write"} : faults'[k] = 0) =>
             /\ files \subseteq files'
             /\ raised' = "none"
             /\ errors' = <<[ctx |-> "Initial navigation error", url |-> target_url]>>
             /\ pc' = "done" =>
                  /\ summary'.emitted
                  /\ summary'.errors = errors'
                  /\ si' > Len(inline_scripts')
                  /\ inline_scripts' = SelectSeq(RootScripts, NonEmpty)
                  /\ (crawl /\ max_depth > 0) => nav_log' # << >>
                  /\ crawl => Normalized[target_url] \in visited'
      ]_vars

\* the root navigation failed after app.js had been saved, and the session
\* ended with the crawl done, the inline scripts saved and the summary emitted
C13_Witness ==
    /\ pc = "done"
    /\ faults["root_nav"] = 1
    /\ crawl /\ Len(nav_log) > 1
    /\ \E f \in files : f.name = AppFileName
    /\ inline_count > 0
    /\ summary.emitted /\ Len(summary.errors) = 1

\* C14: the summary is emitted only after the browser has been released, that
\* is once browser.close() has returned
C14_SummaryAfterRelease == summary.emitted => pc \in {"stopping", "done"}

\* C15: the name under which an asset is saved, from build_filename or from the
\* inline template, holds no path separator and no reserved character,
\* whatever the target and the source URL
C15_FilenamesPortable ==
    (call.fn \in {"build_filename", "inline_filename"} /\ ret # << >>) =>
        \A k \in DOMAIN ret : ret[k] \notin ForbiddenChars

\* C16: two URLs that differ only in the case of scheme and host, a leading
\* "www.", a trailing slash, the query, the fragment or a default port have
\* the same normalized form
C16_NormalizeDropsNoise ==
    (call.fn = "normalize_url" /\ ret # << >>) => ret[1] = ret[2]

\* C17: a step that handles a candidate which passed the filter and the size
\* floor and whose hash is already in hash_set (an inline script the loop
\* moves past, or a response whose body was read) writes nothing, leaves
\* hash_set alone and adds exactly one to "duplicate" and to no other counter.
\* So on the page whose inline scripts hold "let x=1;" twice, with no response
\* delivered and no failure, once the loop is past the second occurrence one
\* file holds that text, under the inline name, and "duplicate" is 1
C17_DuplicateSkipped ==
    [][ /\ (/\ pc = "inline" /\ si \in DOMAIN inline_scripts /\ si' = si + 1
            /\ InterestingInline(inline_scripts[si])
            /\ ~TooSmall(encode_utf8(inline_scripts[si]))
            /\ sha256_hexdigest(encode_utf8(inline_scripts[si])) \in hash_set) =>
             /\ files' = files /\ writes' = writes /\ hash_set' = hash_set
             /\ inline_count' = inline_count
             /\ skipped_counters' = [skipped_counters EXCEPT !["duplicate"] = @ + 1]
        /\ \A t \in BagToSet(tasks) :
             (/\ tasks' = tasks (-) SetToBag({t}) /\ faults' = faults /\ pc' = pc
              /\ ~TooSmall(t.body)
              /\ sha256_hexdigest(t.body) \in hash_set) =>
                 /\ files' = files /\ writes' = writes /\ hash_set' = hash_set
                 /\ skipped_counters' = [skipped_counters EXCEPT !["duplicate"] = @ + 1]
        /\ (pc' = "inline" /\ si' > 3 /\ nev' = 0 /\ FaultTotal' = 0) =>
             /\ {f \in files' : f.content = Body_app}
                    = {[name |-> inline_filename(domain, Sha_Body_app), content |-> Body_app]}
             /\ inline_scripts'[1] = Script_app /\ inline_scripts'[3] = Script_app
             /\ skipped_counters'["duplicate"] = 1
      ]_vars

\* both occurrences of "let x=1;" have been handled: one inline file, one
\* duplicate
C17_Witness ==
    /\ pc = "inline" /\ si > 3 /\ nev = 0
    /\ inline_scripts[1] = inline_scripts[3]
    /\ inline_count >= 1
    /\ skipped_counters["duplicate"] = 1
    /\ \E f \in files : f.content = encode_utf8(inline_scripts[3])

C19_PagesClosedOnce ==
    /\ Len(closes) = Len(nav_log)
    /\ \A k \in DOMAIN closes :
         /\ closes[k] <= 1
         /\ closes[k] = 0 <=> \E j \in DOMAIN stack : stack[j].page = k
    /\ \A j \in DOMAIN stack : stack[j].page \in {0} \cup DOMAIN closes
    /\ \A i, j \in DOMAIN stack : (i # j /\ stack[i].page # 0) => stack[i].page # stack[j].page
    /\ pc # "crawling" => \A k \in DOMAIN closes : closes[k] = 1

\* the crawl is over, a child call failed to open its page, and the page of
\* its parent has been closed
C19_Witness ==
    /\ pc = "extract"
    /\ faults["new_page"] = 1
    /\ closes # << >>
    /\ \A k \in DOMAIN closes : closes[k] = 1

\* C20: when the navigation of a crawl page fails, that step records exactly
\* one "Crawl error" for its URL and ends that call only: the calls below it
\* on the stack are as they were.  The loop of a call hands its hrefs to
\* crawl_links one at a time in the order of the list, and when navigation
\* failures are the only failures a call ends only after every href of its
\* page was handed on.  So with depth 2 and the navigation of /b failing, the
\* crawl navigates the start page, /b and then /c, the next new link of the
\* start page
C20_NavFailureEndsBranchOnly ==
    [][ /\ faults'["crawl_nav"] > faults["crawl_nav"] =>
             /\ errors' = Append(errors, CrawlError(Top.current_url))
             /\ Len(stack') = Len(stack)
             /\ SubSeq(stack', 1, Len(stack) - 1) = SubSeq(stack, 1, Len(stack) - 1)
             /\ stack'[Len(stack)] = [Top EXCEPT !.pc = "close"]
             /\ pc' = pc /\ raised' = raised /\ visited' = visited
        /\ \A k \in DOMAIN stack \cap DOMAIN stack' :
             (stack[k].pc = "loop" /\ stack'[k].i # stack[k].i) =>
                 /\ stack'[k].i = stack[k].i + 1
                 /\ stack'[k].hrefs = stack[k].hrefs
                 /\ Normalized[stack[k].hrefs[stack[k].i]] \in visited'
                 /\ Len(stack') > k => stack'[k + 1].current_url = stack[k].hrefs[stack[k].i]
        /\ (faults'["crawl_nav"] = FaultTotal') =>
             \A k \in DOMAIN stack' :
                 (stack'[k].pc = "close" /\ stack'[k].hrefs # << >>) =>
                     /\ stack'[k].i > Len(stack'[k].hrefs)
                     /\ \A j \in DOMAIN stack'[k].hrefs :
                            Normalized[stack'[k].hrefs[j]] \in visited'
        /\ (/\ pc' = "extract" /\ max_depth = 2 /\ FaultTotal' = 1
            /\ errors' = <<CrawlError(Resolved[target_url][1])>>) =>
             /\ Len(nav_log') = 3
             /\ nav_log'[1].url = target_url
             /\ nav_log'[2].url = Resolved[target_url][1]
             /\ nav_log'[3].url = Resolved[target_url][4]
      ]_vars

\* the navigation of /b failed, and the crawl went on to /c
C20_Witness ==
    /\ pc = "extract"
    /\ faults["crawl_nav"] = 1
    /\ errors = <<CrawlError(Resolved[target_url][1])>>
    /\ Len(nav_log) = 3
    /\ nav_log[3].url = Resolved[target_url][4]

\* C21: the totals of the summary are those of the ledger from then on: once
\* the summary is emitted, the number of files and the skip counters stay as
\* reported, no handler being left to change them
C21_SummaryIsFinal ==
    summary.emitted =>
        /\ summary.downloaded = Cardinality(files)
        /\ summary.skipped = skipped_counters

C23_InlineAccounting ==
    [][ /\ (pc = "inline" /\ si \in DOMAIN inline_scripts /\ si' = si + 1) =>
             LET content == encode_utf8(inline_scripts[si])
                 outcome ==
                     IF ~InterestingInline(inline_scripts[si]) THEN "uninteresting"
                     ELSE IF Len(content) < min_size THEN "small"
                     ELSE IF sha256_hexdigest(content) \in hash_set THEN "duplicate"
                     ELSE "saved"
             IN  /\ inline_count' = inline_count + (IF outcome = "saved" THEN 1 ELSE 0)
                 /\ skipped_counters' =
                        [k \in DOMAIN skipped_counters |->
                            skipped_counters[k] + (IF outcome = k THEN 1 ELSE 0)]
                 /\ outcome = "saved" <=> files' # files
        /\ pc' = "inline" =>
             si' - 1 = inline_count'
                        + (skipped_counters'["uninteresting"] - inline_entry'["uninteresting"])
                        + (skipped_counters'["small"] - inline_entry'["small"])
                        + (skipped_counters'["duplicate"] - inline_entry'["duplicate"])
        /\ summary'.emitted =>
             Len(inline_scripts') = inline_count'
                        + (summary'.skipped["uninteresting"] - inline_entry'["uninteresting"])
                        + (summary'.skipped["small"] - inline_entry'["small"])
                        + (summary'.skipped["duplicate"] - inline_entry'["duplicate"])
      ]_vars

\* process_inline_scripts has returned on four scripts, after a response had
\* been skipped: at least one file saved, one script uninteresting and one a
\* duplicate
C23_Witness ==
    /\ summary.emitted
    /\ Len(inline_scripts) = 4
    /\ inline_entry["small"] + inline_entry["duplicate"] > 0
    /\ inline_count >= 1
    /\ summary.skipped["uninteresting"] > inline_entry["uninteresting"]
    /\ summary.skipped["duplicate"] > inline_entry["duplicate"]

=============================================================================
